---- MODULE Spec2Model ----
(***************************************************************************)
(* Bus transaction sequencing of embedded-hal: the blocking I2C            *)
(* transaction contract (src/src/i2c.rs), the single-operation facade      *)
(* (read, write, write_read), the exclusive backend handle (&mut self) and *)
(* the full-duplex SPI transfer (src/embedded-hal-async/src/spi.rs).       *)
(* The backend primitives begin / continue_with / send / receive / end and *)
(* the fault policy are those of the design document (sections 4.1, 4.2).  *)
(***************************************************************************)
EXTENDS Integers, Sequences, FiniteSets, TLC

VARIABLES tx, handle, spi, wire, cs

vars == <<tx, handle, spi, wire, cs>>

(* ------------------------------ bounds --------------------------------- *)

\* Longest operation list handed to exec.
MaxOps == 3
\* Longest read or write buffer handed to an SPI transfer.
MaxWords == 5
\* Longest operation list handed to an SPI transaction.
MaxSpiOps == 3

\* Buffer lengths of the I2C operations that are tried.
ReadLens == {0, 1, 3}
WriteLens == {0, 1}
\* Address values that callers try to pass, in and out of each carrier type.
AddrSamples7 == {21, 128, 344}
AddrSamples10 == {344, 1500, 70000}
\* Words a slave answers with on MISO, and the filler values of a master.
MisoWords == {7, 8}
FillWords == {0, 255}

(* ----------------------------- error kinds ----------------------------- *)

NoAcknowledgeSource == {"Address", "Data", "Unknown"}

NoAcknowledge(s) ==
    CASE s = "Address" -> "NoAcknowledge(Address)"
      [] s = "Data" -> "NoAcknowledge(Data)"
      [] OTHER -> "NoAcknowledge(Unknown)"

ErrorKind ==
    {"Bus", "ArbitrationLoss", "Overrun", "Other"}
        \cup {NoAcknowledge(s) : s \in NoAcknowledgeSource}

\* impl Error for ErrorKind: kind(&self) = *self
kind(e) == e

\* Faults the backend is made to report.
BackendFaults == {"Bus", NoAcknowledge("Data")}

(* ---------------------------- address modes ---------------------------- *)

U8 == 256
U16 == 65536

AddressMode == {"SevenBit", "TenBit"}

SevenBitAddress == 0 .. (U8 - 1)

TenBitAddress == 0 .. (U16 - 1)

AddressType(m) == IF m = "SevenBit" THEN SevenBitAddress ELSE TenBitAddress

\* The address values a caller can pass: the samples the carrier type admits.
AddrInputs(m) ==
    IF m = "SevenBit" THEN AddrSamples7 \cap AddressType(m)
                      ELSE AddrSamples10 \cap AddressType(m)

\* The low n bits of v, most significant first.
RECURSIVE Bits(_, _)
Bits(v, n) == IF n = 0 THEN <<>> ELSE Append(Bits(v \div 2, n - 1), v % 2)

RECURSIVE BitsValue(_)
BitsValue(bs) ==
    IF bs = <<>> THEN 0
    ELSE 2 * BitsValue(SubSeq(bs, 1, Len(bs) - 1)) + bs[Len(bs)]

\* "followed by bit 1 to indicate reading or 0 to indicate writing"
DirBit_Swapped(d) == IF d = "R" THEN 0 ELSE 1
DirBit(d) == IF d = "R" THEN 1 ELSE 0

\* SAD+R/W in 7-bit mode: the seven address bits followed by the direction bit.
AddressByte7(a, d) == BitsValue(Append(Bits(a, 7), DirBit(d)))

\* 10-bit mode: 11110, the two high address bits and the direction bit, then
\* a second byte with the remaining eight address bits.
AddressBytes10(a, d) ==
    << BitsValue(<<1, 1, 1, 1, 0>> \o Bits(a \div 256, 2) \o <<DirBit(d)>>),
       BitsValue(Bits(a, 8)) >>

AddressBytes(m, a, d) ==
    IF m = "SevenBit" THEN <<AddressByte7(a, d)>> ELSE AddressBytes10(a, d)

(* ------------------------------ operations ----------------------------- *)

Payload(n) == [i \in 1 .. n |-> i]
Buffer(n) == [i \in 1 .. n |-> 0]

\* enum Operation { Read(&mut [u8]), Write(&[u8]) }
Read(buffer) == [dir |-> "R", data |-> buffer]
Write(bytes) == [dir |-> "W", data |-> bytes]

Operation ==
    {Read(Buffer(n)) : n \in ReadLens} \cup {Write(Payload(n)) : n \in WriteLens}

OpLists == UNION {[1 .. n -> Operation] : n \in 0 .. MaxOps}

(* --------------------------- primitive calls --------------------------- *)

Call(c, d, a, w, b, n) ==
    [c |-> c, dir |-> d, addr |-> a, wire |-> w, bytes |-> b, nack |-> n]

BeginCall(m, a, d) == Call("begin", d, a, AddressBytes(m, a, d), <<>>, FALSE)
ContinueWithCall(m, a, d) ==
    Call("continue_with", d, a, AddressBytes(m, a, d), <<>>, FALSE)
SendCall(bytes) == Call("send", "W", 0, <<>>, bytes, FALSE)
ReceiveCall(nack) == Call("receive", "R", 0, <<>>, <<>>, nack)
EndCall == Call("end", "-", 0, <<>>, <<>>, FALSE)

(* ------------------------ the transaction contract --------------------- *)

\* Framing in front of operation i: ST SAD before the first operation, SR SAD
\* between adjacent operations of a different type, nothing between adjacent
\* operations of the same type.
Framing_NoCoalesce(m, a, ops, i) ==
    IF i = 1 THEN <<BeginCall(m, a, ops[i].dir)>>
    ELSE <<ContinueWithCall(m, a, ops[i].dir)>>
Framing_StaleDir(m, a, ops, i) ==
    IF i = 1 THEN <<BeginCall(m, a, ops[i].dir)>>
    ELSE IF ops[i - 1].dir # ops[i].dir
         THEN <<ContinueWithCall(m, a, ops[i - 1].dir)>>
         ELSE <<>>
Framing(m, a, ops, i) ==
    IF i = 1 THEN <<BeginCall(m, a, ops[i].dir)>>
    ELSE IF ops[i - 1].dir # ops[i].dir
         THEN <<ContinueWithCall(m, a, ops[i].dir)>>
         ELSE <<>>

\* "If the last operation is a Read the master does not send an acknowledge
\* for the last byte": byte k of operation i.
NoAck_EveryRead(ops, i, k) == k = Len(ops[i].data)
NoAck(ops, i, k) == i = Len(ops) /\ k = Len(ops[i].data)

\* The bytes of operation i: one send of a Write's bytes, one receive per byte
\* of a Read's buffer.
Dispatch(ops, i) ==
    IF ops[i].dir = "W" THEN <<SendCall(ops[i].data)>>
    ELSE [k \in 1 .. Len(ops[i].data) |-> ReceiveCall(NoAck(ops, i, k))]

RECURSIVE ExecFrom(_, _, _, _)
ExecFrom(m, a, ops, i) ==
    IF i > Len(ops) THEN <<EndCall>>
    ELSE Framing(m, a, ops, i) \o Dispatch(ops, i) \o ExecFrom(m, a, ops, i + 1)

\* Transactional::exec on a non-empty operation list.
ExecPlan(m, a, ops) == ExecFrom(m, a, ops, 1)

\* Read::read:  ST SAD+R  MAK MAK ... NMAK  SP
ReadPlan(m, a, buffer) ==
    <<BeginCall(m, a, "R")>>
        \o [k \in 1 .. Len(buffer) |-> ReceiveCall(k = Len(buffer))]
        \o <<EndCall>>

\* Write::write:  ST SAD+W  B0 B1 ... BN  SP
WritePlan(m, a, bytes) == <<BeginCall(m, a, "W"), SendCall(bytes), EndCall>>

\* WriteRead::write_read:  ST SAD+W  O0 ... OM  SR SAD+R  MAK ... NMAK  SP
WriteReadPlan_StopStart(m, a, bytes, buffer) ==
    <<BeginCall(m, a, "W"), SendCall(bytes), EndCall, BeginCall(m, a, "R")>>
        \o [k \in 1 .. Len(buffer) |-> ReceiveCall(k = Len(buffer))]
        \o <<EndCall>>
WriteReadPlan(m, a, bytes, buffer) ==
    <<BeginCall(m, a, "W"), SendCall(bytes), ContinueWithCall(m, a, "R")>>
        \o [k \in 1 .. Len(buffer) |-> ReceiveCall(k = Len(buffer))]
        \o <<EndCall>>

(* ------------------------------ fault policy --------------------------- *)

\* What a backend may answer to an operation list that is empty: the list is
\* handed to it unchecked, and the result is its own.
EmptyListResults == {"Ok", "Other"} \cup BackendFaults

\* The first error met is the one returned.
FirstError_Last(err, e) == e
FirstError(err, e) == IF err = "none" THEN e ELSE err

\* Where the sequencer goes after primitive c failed: a failed begin or
\* continue_with returns at once; a failed send or receive drops the remaining
\* operations and goes to the closing end.
AfterFault_AlwaysEnd(plan, nxt, c) ==
    IF c = "end" THEN 0 ELSE Len(plan)
AfterFault_Continue(plan, nxt, c) ==
    IF c \in {"begin", "continue_with", "end"} THEN 0 ELSE nxt + 1
AfterFault(plan, nxt, c) ==
    IF c \in {"begin", "continue_with", "end"} THEN 0 ELSE Len(plan)

(* ------------------------------- callers ------------------------------- *)

\* Two callers share one backend: one uses the blocking call shape, the other
\* the suspending one. The sequencing of primitive calls is modelled once,
\* for both: the shape decides only whether a call in progress can be given
\* up, which is by dropping the future a suspending call returns.
Tasks == {1, 2}
Shape(t) == IF t = 1 THEN "blocking" ELSE "suspending"

IdleTx ==
    [status |-> "idle", mode |-> "SevenBit", addr |-> 0, entry |-> "none",
     ops |-> <<>>, plan |-> <<>>, calls |-> <<>>, nxt |-> 1, pend |-> FALSE,
     err |-> "none", faults |-> <<>>, result |-> "none", waited |-> FALSE]

\* &mut self: a transaction starts only with the one exclusive handle in hand.
HandleFree_Aliased == TRUE
HandleFree == handle = 0

\* A caller has taken its result before the next transaction is observed.
ResultsConsumed == \A u \in Tasks : tx[u].status # "returned"

CanStart(t) ==
    /\ tx[t].status \in {"idle", "waiting"}
    /\ HandleFree
    /\ ResultsConsumed

(* ---------------------- the full-duplex (SPI) side --------------------- *)

Max(a, b) == IF a >= b THEN a ELSE b
Min(a, b) == IF a <= b THEN a ELSE b

\* "The transfer runs for max(read.len(), write.len()) words."
TransferLen_Min(read, write) == Min(Len(read), Len(write))
TransferLen(read, write) == Max(Len(read), Len(write))

SpiIdle ==
    [pc |-> "idle", read |-> <<>>, write |-> <<>>, fill |-> 0, miso |-> <<>>,
     mosi |-> <<>>, t |-> 0, discarded |-> 0, rlen |-> 0, result |-> "none"]

\* An SPI transaction: its operations, the one being run, the chip-select
\* line and the record of what happened on the line and the bus.
CsIdle ==
    [pc |-> "idle", entry |-> "none", ops |-> <<>>, i |-> 0, fill |-> 0,
     asserted |-> FALSE, log |-> <<>>, err |-> "none", result |-> "none"]

WireIdle == [pc |-> "idle", mode |-> "SevenBit", addr |-> 0, dir |-> "W", bytes |-> <<>>]

(* ------------------------------- Init ---------------------------------- *)

Init ==
    /\ tx = [t \in Tasks |-> IdleTx]
    /\ handle = 0
    /\ spi = SpiIdle
    /\ wire = WireIdle
    /\ cs = CsIdle

(* --------------------------- I2C: entry points ------------------------- *)

\* A second logical transaction is attempted while the handle is borrowed.
Attempt(t) ==
    /\ tx[t].status = "idle"
    /\ ~HandleFree
    /\ tx' = [tx EXCEPT ![t].status = "waiting"]
    /\ UNCHANGED <<handle, spi, wire, cs>>

Start(t, m, a, entry, ops, plan) ==
    /\ CanStart(t)
    /\ tx' = [tx EXCEPT ![t] =
                [status |-> "running", mode |-> m, addr |-> a, entry |-> entry,
                 ops |-> ops, plan |-> plan, calls |-> <<>>, nxt |-> 1,
                 pend |-> FALSE, err |-> "none", faults |-> <<>>,
                 result |-> "none", waited |-> (tx[t].status = "waiting")]]
    /\ handle' = t
    /\ UNCHANGED <<spi, wire, cs>>

\* exec(address, operations)
Exec(t) ==
    /\ CanStart(t)
    /\ \E m \in AddressMode : \E a \in AddrInputs(m) : \E ops \in OpLists :
        \/ /\ ops = <<>>
           /\ \E r \in EmptyListResults :
                 tx' = [tx EXCEPT ![t] =
                          [IdleTx EXCEPT !.status = "returned", !.mode = m,
                                         !.addr = a, !.entry = "exec",
                                         !.result = r,
                                         !.waited = (tx[t].status = "waiting")]]
           /\ UNCHANGED <<handle, spi, wire, cs>>
        \/ /\ ops # <<>>
           /\ Start(t, m, a, "exec", ops, ExecPlan(m, a, ops))

\* read(address, buffer)
ReadEntry(t) ==
    /\ CanStart(t)
    /\ \E m \in AddressMode : \E a \in AddrInputs(m) : \E n \in ReadLens :
        Start(t, m, a, "read", <<Read(Buffer(n))>>, ReadPlan(m, a, Buffer(n)))

\* write(address, bytes)
WriteEntry(t) ==
    /\ CanStart(t)
    /\ \E m \in AddressMode : \E a \in AddrInputs(m) : \E n \in WriteLens :
        Start(t, m, a, "write", <<Write(Payload(n))>>, WritePlan(m, a, Payload(n)))

\* write_read(address, bytes, buffer)
WriteReadEntry(t) ==
    /\ CanStart(t)
    /\ \E m \in AddressMode : \E a \in AddrInputs(m) :
        \E w \in WriteLens : \E r \in ReadLens :
            Start(t, m, a, "write_read", <<Write(Payload(w)), Read(Buffer(r))>>,
                  WriteReadPlan(m, a, Payload(w), Buffer(r)))

(* ------------------------- I2C: primitive calls ------------------------ *)

NextCall(t) == tx[t].plan[tx[t].nxt]

Issue(t, c) ==
    /\ tx[t].status = "running"
    /\ ~tx[t].pend
    /\ tx[t].nxt <= Len(tx[t].plan)
    /\ NextCall(t).c = c
    /\ tx' = [tx EXCEPT ![t].calls = Append(@, NextCall(t)), ![t].pend = TRUE]
    /\ UNCHANGED <<handle, spi, wire, cs>>

Begin(t) == Issue(t, "begin")
ContinueWith(t) == Issue(t, "continue_with")
Send(t) == Issue(t, "send")
Receive(t) == Issue(t, "receive")
End(t) == Issue(t, "end")

\* The call returns r to its caller and the borrow of the handle ends; log is
\* the backend's record of the faults it reported, in order.
Return(t, r, log) ==
    /\ tx' = [tx EXCEPT ![t].status = "returned", ![t].pend = FALSE,
                        ![t].result = r, ![t].faults = log]
    /\ handle' = 0
    /\ UNCHANGED <<spi, wire, cs>>

\* The primitive in flight reports success.
PrimitiveOk(t) ==
    /\ tx[t].status = "running"
    /\ tx[t].pend
    /\ \/ /\ NextCall(t).c = "end"
          /\ Return(t, IF tx[t].err = "none" THEN "Ok" ELSE tx[t].err,
                    tx[t].faults)
       \/ /\ NextCall(t).c # "end"
          /\ tx' = [tx EXCEPT ![t].pend = FALSE, ![t].nxt = @ + 1]
          /\ UNCHANGED <<handle, spi, wire, cs>>

\* The primitive in flight reports fault e.
PrimitiveFail(t, e) ==
    /\ tx[t].status = "running"
    /\ tx[t].pend
    /\ LET to == AfterFault(tx[t].plan, tx[t].nxt, NextCall(t).c)
           log == Append(tx[t].faults, [n |-> Len(tx[t].calls), e |-> e])
       IN \/ /\ to = 0
             /\ Return(t, FirstError(tx[t].err, e), log)
          \/ /\ to # 0
             /\ tx' = [tx EXCEPT ![t].pend = FALSE, ![t].nxt = to,
                                 ![t].err = FirstError(@, e),
                                 ![t].faults = log]
             /\ UNCHANGED <<handle, spi, wire, cs>>

\* The future of a suspending transaction is dropped, either before it was
\* first polled (no call made yet) or while it is parked at a suspension
\* point, inside a primitive call: the borrow of the handle ends and no stop
\* is put on the bus.
Cancel(t) ==
    /\ Shape(t) = "suspending"
    /\ tx[t].status = "running"
    /\ tx[t].pend \/ tx[t].calls = <<>>
    /\ tx' = [tx EXCEPT ![t] = [IdleTx EXCEPT !.status = "cancelled"]]
    /\ handle' = 0
    /\ UNCHANGED <<spi, wire, cs>>

\* The caller takes the outcome and is ready for its next transaction.
Consume(t) ==
    /\ tx[t].status \in {"returned", "cancelled"}
    /\ tx' = [tx EXCEPT ![t] = IdleTx]
    /\ UNCHANGED <<handle, spi, wire, cs>>

Next ==
    \E t \in Tasks :
        \/ Attempt(t)
        \/ Exec(t)
        \/ ReadEntry(t)
        \/ WriteEntry(t)
        \/ WriteReadEntry(t)
        \/ Begin(t)
        \/ ContinueWith(t)
        \/ Send(t)
        \/ Receive(t)
        \/ End(t)
        \/ PrimitiveOk(t)
        \/ \E e \in BackendFaults : PrimitiveFail(t, e)
        \/ Cancel(t)
        \/ Consume(t)

Spec == Init /\ [][Next]_vars

(* --------------------------- SPI: transfer ----------------------------- *)

\* transfer(read, write)
Transfer ==
    /\ spi.pc = "idle"
    /\ \E r \in 0 .. MaxWords : \E w \in 0 .. MaxWords : \E f \in FillWords :
          spi' = [SpiIdle EXCEPT !.pc = "transfer", !.read = Buffer(r),
                                 !.write = Payload(w), !.fill = f,
                                 !.rlen = r]
    /\ UNCHANGED <<tx, handle, wire, cs>>

\* One word-time: a word goes out on MOSI while a word comes in on MISO.
WordTime ==
    /\ spi.pc = "transfer"
    /\ spi.t < TransferLen(spi.read, spi.write)
    /\ \E in \in MisoWords :
          LET k == spi.t + 1
          IN spi' = [spi EXCEPT
                       !.t = k,
                       !.miso = Append(@, in),
                       !.mosi = Append(@, IF k <= Len(spi.write)
                                          THEN spi.write[k] ELSE spi.fill),
                       !.read = IF k <= Len(@) THEN [@ EXCEPT ![k] = in] ELSE @,
                       !.discarded = IF k <= Len(spi.read) THEN @ ELSE @ + 1]
    /\ UNCHANGED <<tx, handle, wire, cs>>

TransferDone ==
    /\ spi.pc = "transfer"
    /\ spi.t = TransferLen(spi.read, spi.write)
    /\ spi' = [spi EXCEPT !.pc = "done", !.result = "Ok"]
    /\ UNCHANGED <<tx, handle, wire, cs>>

TransferFault ==
    /\ spi.pc = "transfer"
    /\ spi.t < TransferLen(spi.read, spi.write)
    /\ spi' = [spi EXCEPT !.pc = "done", !.result = "Other"]
    /\ UNCHANGED <<tx, handle, wire, cs>>

TransferReturn ==
    /\ spi.pc = "done"
    /\ spi' = SpiIdle
    /\ UNCHANGED <<tx, handle, wire, cs>>

SpiNext == Transfer \/ WordTime \/ TransferDone \/ TransferFault \/ TransferReturn

SpecSpi == Init /\ [][SpiNext]_vars

(* ------------------------- SPI: transactions --------------------------- *)

\* enum Operation { Read(&mut [W]), Write(&[W]), Transfer(&mut [W], &[W]),
\*                  TransferInPlace(&mut [W]) }, each run as the method of the
\* same name: a read sends the filler, a write discards what comes in, an
\* in-place transfer sends the buffer it then overwrites.
SpiRead(words) == [kind |-> "Read", read |-> words, write |-> <<>>]
SpiWrite(words) == [kind |-> "Write", read |-> <<>>, write |-> words]
SpiTransfer(read, write) == [kind |-> "Transfer", read |-> read, write |-> write]
SpiTransferInPlace(words) ==
    [kind |-> "TransferInPlace", read |-> words, write |-> words]

SpiReadLens == {0, 2}
SpiWriteLens == {1}

SpiOperation ==
    {SpiRead(Buffer(n)) : n \in SpiReadLens}
        \cup {SpiWrite(Payload(n)) : n \in SpiWriteLens}
        \cup {SpiTransfer(Buffer(r), Payload(r + w)) :
                 r \in SpiWriteLens, w \in SpiWriteLens}
        \cup {SpiTransferInPlace(Payload(n)) : n \in SpiWriteLens}

SpiOpLists == UNION {[1 .. n -> SpiOperation] : n \in 0 .. MaxSpiOps}

\* Events on the select line and the bus, in the order they happen.
CsAssert == [e |-> "assert", k |-> 0]
CsDeassert == [e |-> "deassert", k |-> 0]
OpEvent(i) == [e |-> "op", k |-> i]

\* What happens on the select line after operation i of a transaction has
\* finished and before operation i + 1 starts.
BetweenOperations_Toggle(ops, i) == <<CsDeassert, CsAssert>>
BetweenOperations(ops, i) == <<>>

SpiStart(entry, ops, f) ==
    /\ cs.pc = "idle"
    /\ spi.pc = "idle"
    /\ cs' = [CsIdle EXCEPT !.pc = "select", !.entry = entry, !.ops = ops,
                            !.fill = f]
    /\ UNCHANGED <<tx, handle, spi, wire>>

\* transaction(operations)
Transaction ==
    \E ops \in SpiOpLists : \E f \in FillWords : SpiStart("transaction", ops, f)

\* read_transaction(words)
ReadTransaction ==
    \E n \in 0 .. MaxSpiOps : \E lens \in [1 .. n -> SpiReadLens] :
       \E f \in FillWords :
          SpiStart("read_transaction",
                   [i \in 1 .. n |-> SpiRead(Buffer(lens[i]))], f)

\* write_transaction(words)
WriteTransaction ==
    \E n \in 0 .. MaxSpiOps : \E lens \in [1 .. n -> SpiWriteLens] :
       \E f \in FillWords :
          SpiStart("write_transaction",
                   [i \in 1 .. n |-> SpiWrite(Payload(lens[i]))], f)

\* Chip-select is asserted: the start of the transaction.
Select ==
    /\ cs.pc = "select"
    /\ cs' = [cs EXCEPT !.pc = IF cs.ops = <<>> THEN "release" ELSE "next",
                        !.i = IF cs.ops = <<>> THEN 0 ELSE 1,
                        !.asserted = TRUE, !.log = Append(@, CsAssert)]
    /\ UNCHANGED <<tx, handle, spi, wire>>

\* The next operation of the list goes to the bus.
OpStart ==
    /\ cs.pc = "next"
    /\ spi.pc = "idle"
    /\ LET op == cs.ops[cs.i]
       IN spi' = [SpiIdle EXCEPT !.pc = "transfer", !.read = op.read,
                                 !.write = op.write, !.fill = cs.fill,
                                 !.rlen = Len(op.read)]
    /\ cs' = [cs EXCEPT !.pc = "op", !.log = Append(@, OpEvent(cs.i))]
    /\ UNCHANGED <<tx, handle, wire>>

\* The operation on the bus has finished: on to the next one, or to the
\* release of chip-select after the last one and after a failed one.
OpDone ==
    /\ cs.pc = "op"
    /\ spi.pc = "done"
    /\ spi' = SpiIdle
    /\ cs' = IF spi.result = "Ok" /\ cs.i < Len(cs.ops)
             THEN LET line == BetweenOperations(cs.ops, cs.i)
                  IN [cs EXCEPT !.pc = "next", !.i = @ + 1,
                                !.log = @ \o line,
                                !.asserted =
                                    IF line = <<>> THEN @
                                    ELSE line[Len(line)] = CsAssert]
             ELSE [cs EXCEPT !.pc = "release",
                             !.err = IF spi.result = "Ok" THEN "none"
                                     ELSE spi.result]
    /\ UNCHANGED <<tx, handle, wire>>

\* Chip-select is deasserted: the stop of the transaction.
Release ==
    /\ cs.pc = "release"
    /\ cs' = [cs EXCEPT !.pc = "returned", !.asserted = FALSE,
                        !.log = Append(@, CsDeassert),
                        !.result = IF cs.err = "none" THEN "Ok" ELSE cs.err]
    /\ UNCHANGED <<tx, handle, spi, wire>>

\* The future of the transaction is dropped, before it was first polled or
\* while an operation is on the bus: nothing more is done, the select line
\* stays as it is.
CsCancel ==
    /\ \/ cs.pc = "select"
       \/ cs.pc = "op" /\ spi.pc = "transfer"
    /\ cs' = [cs EXCEPT !.pc = "cancelled"]
    /\ spi' = SpiIdle
    /\ UNCHANGED <<tx, handle, wire>>

CsReturn ==
    /\ cs.pc \in {"returned", "cancelled"}
    /\ cs' = CsIdle
    /\ UNCHANGED <<tx, handle, spi, wire>>

CsNext ==
    \/ Transaction
    \/ ReadTransaction
    \/ WriteTransaction
    \/ Select
    \/ OpStart
    \/ WordTime
    \/ TransferDone
    \/ TransferFault
    \/ OpDone
    \/ Release
    \/ CsCancel
    \/ CsReturn

SpecCs == Init /\ [][CsNext]_vars

(* ------------------------ address bytes on the wire -------------------- *)

AddrInit ==
    /\ tx = [t \in Tasks |-> IdleTx]
    /\ handle = 0
    /\ spi = SpiIdle
    /\ cs = CsIdle
    /\ \E m \in AddressMode : \E d \in {"R", "W"} :
          \E a \in (IF m = "SevenBit" THEN SevenBitAddress
                    ELSE AddrSamples10 \cap TenBitAddress) :
              wire = [pc |-> "start", mode |-> m, addr |-> a, dir |-> d,
                      bytes |-> <<>>]

\* What begin and continue_with put on the wire after the (repeated) start.
EmitAddress ==
    /\ wire.pc = "start"
    /\ wire' = [wire EXCEPT !.pc = "sent",
                            !.bytes = AddressBytes(wire.mode, wire.addr, wire.dir)]
    /\ UNCHANGED <<tx, handle, spi, cs>>

AddrNext == EmitAddress

SpecAddr == AddrInit /\ [][AddrNext]_vars

(* ----------------- what the properties are stated against -------------- *)

\* Direction changes between operation i and operation j of a list.
DirChanges(ops, i, j) ==
    Cardinality({k \in i .. (j - 1) : ops[k].dir # ops[k + 1].dir})

\* Maximal same-direction runs of a non-empty list, and the run of operation k.
NumRuns(ops) == 1 + DirChanges(ops, 1, Len(ops))
RunOf(ops, k) == 1 + DirChanges(ops, 1, k)
LastOpOfRun(ops, r) ==
    CHOOSE k \in 1 .. Len(ops) :
        RunOf(ops, k) = r /\ (k = Len(ops) \/ RunOf(ops, k + 1) # r)
RunDir(ops, r) == ops[LastOpOfRun(ops, r)].dir

\* Data calls an operation takes: one send, or one receive per byte.
DataCalls(op) == IF op.dir = "W" THEN 1 ELSE Len(op.data)

RECURSIVE DataCallsUpTo(_, _)
DataCallsUpTo(ops, k) ==
    IF k = 0 THEN 0 ELSE DataCallsUpTo(ops, k - 1) + DataCalls(ops[k])

\* The operation that owns the n-th data call, searching from operation k.
RECURSIVE OpOfData(_, _, _)
OpOfData(ops, n, k) ==
    IF n <= DataCalls(ops[k]) THEN k
    ELSE OpOfData(ops, n - DataCalls(ops[k]), k + 1)

\* <<operation, byte>> of the n-th received byte, searching from operation k.
RECURSIVE ReadSlot(_, _, _)
ReadSlot(ops, n, k) ==
    IF ops[k].dir = "R" /\ n <= Len(ops[k].data) THEN <<k, n>>
    ELSE ReadSlot(ops, IF ops[k].dir = "R" THEN n - Len(ops[k].data) ELSE n, k + 1)

Count(calls, c) == Cardinality({p \in 1 .. Len(calls) : calls[p].c = c})
IsData(call) == call.c \in {"send", "receive"}
IsFraming(call) == call.c \in {"begin", "continue_with"}
DataIndex(calls, p) == Cardinality({q \in 1 .. p : IsData(calls[q])})
FramingIndex(calls, p) == Cardinality({q \in 1 .. p : IsFraming(calls[q])})
ReceiveIndex(calls, p) == Cardinality({q \in 1 .. p : calls[q].c = "receive"})

Started(t) == tx[t].status \in {"running", "returned"}
ExecOk(t) ==
    /\ tx[t].entry = "exec"
    /\ tx[t].ops # <<>>
    /\ tx[t].status = "returned"
    /\ tx[t].result = "Ok"

(* -------------------------------- C1 ----------------------------------- *)

\* C1: a non-empty transaction in which no primitive fails, with K maximal
\* same-direction runs, makes exactly one begin, K-1 continue_with and one
\* end call; begin is first, end is last, and the i-th continue_with comes
\* right after the data calls of runs 1..i and before those of run i+1.
C1_RunFraming ==
    \A t \in Tasks :
        ExecOk(t) =>
            LET ops == tx[t].ops
                calls == tx[t].calls
                K == NumRuns(ops)
            IN /\ Count(calls, "begin") = 1
               /\ Count(calls, "continue_with") = K - 1
               /\ Count(calls, "end") = 1
               /\ calls[1].c = "begin"
               /\ calls[Len(calls)].c = "end"
               /\ Len(calls) = K + 1 + DataCallsUpTo(ops, Len(ops))
               /\ \A i \in 1 .. (K - 1) :
                     LET p == 1 + i + DataCallsUpTo(ops, LastOpOfRun(ops, i))
                     IN /\ calls[p].c = "continue_with"
                        /\ DataIndex(calls, p)
                              = DataCallsUpTo(ops, LastOpOfRun(ops, i))

C1_Witness ==
    \E t \in Tasks :
        /\ ExecOk(t)
        /\ Len(tx[t].ops) = 3
        /\ NumRuns(tx[t].ops) = 3
        /\ Count(tx[t].calls, "continue_with") = 2
        /\ \A k \in 1 .. 3 : DataCalls(tx[t].ops[k]) > 0

(* -------------------------------- C2 ----------------------------------- *)

\* C2: in exec, between the data calls of two operations the number of
\* continue_with calls is the number of direction changes between them (one
\* for adjacent operations of different direction, none for adjacent
\* operations of the same direction), no begin or end is issued there, and
\* each begin/continue_with carries the direction of the run it opens, which
\* is the direction of the data call that follows it.
C2_Coalescing ==
    \A t \in Tasks :
        (tx[t].entry = "exec" /\ Started(t) /\ tx[t].ops # <<>>) =>
            LET ops == tx[t].ops
                calls == tx[t].calls
            IN /\ \A p, q \in 1 .. Len(calls) :
                     ( /\ p < q
                       /\ IsData(calls[p])
                       /\ IsData(calls[q])
                       /\ \A r \in (p + 1) .. (q - 1) : ~IsData(calls[r]) ) =>
                         LET a == OpOfData(ops, DataIndex(calls, p), 1)
                             b == OpOfData(ops, DataIndex(calls, q), 1)
                         IN /\ \A r \in (p + 1) .. (q - 1) :
                                  calls[r].c = "continue_with"
                            /\ q - p - 1 = DirChanges(ops, a, b)
                            /\ (b = a + 1 /\ ops[a].dir # ops[b].dir)
                                  => q = p + 2
                            /\ (b <= a + 1 /\ ops[a].dir = ops[b].dir)
                                  => q = p + 1
               /\ \A p \in 1 .. Len(calls) :
                     IsFraming(calls[p]) =>
                         /\ calls[p].dir = RunDir(ops, FramingIndex(calls, p))
                         /\ (p < Len(calls) /\ IsData(calls[p + 1]))
                               => calls[p + 1].dir = calls[p].dir

C2_Witness ==
    \E t \in Tasks :
        /\ ExecOk(t)
        /\ Len(tx[t].ops) = 3
        /\ tx[t].ops[1].dir = tx[t].ops[2].dir
        /\ tx[t].ops[2].dir # tx[t].ops[3].dir
        /\ \A k \in 1 .. 3 : DataCalls(tx[t].ops[k]) > 0
        /\ Count(tx[t].calls, "continue_with") = 1

(* -------------------------------- C3 ----------------------------------- *)

\* C3: in every transaction a receive call carries last_byte_no_ack = TRUE
\* exactly when it is the receive of the last byte of the last operation (a
\* Read); every other receive, the last byte of a Read that is followed by a
\* further operation included, carries FALSE.
C3_LastByteNoAck ==
    \A t \in Tasks :
        (Started(t) /\ tx[t].ops # <<>>) =>
            LET ops == tx[t].ops
                calls == tx[t].calls
            IN \A p \in 1 .. Len(calls) :
                  calls[p].c = "receive" =>
                      LET slot == ReadSlot(ops, ReceiveIndex(calls, p), 1)
                      IN calls[p].nack
                            = ( /\ slot[1] = Len(ops)
                                /\ slot[2] = Len(ops[Len(ops)].data) )

\* [Write([0x01]), Read(len 3)] has run: false, false, true.
C3_Witness ==
    \E t \in Tasks :
        /\ ExecOk(t)
        /\ tx[t].ops = <<Write(<<1>>), Read(<<0, 0, 0>>)>>
        /\ Len(tx[t].calls) = 7
        /\ <<tx[t].calls[4].nack, tx[t].calls[5].nack, tx[t].calls[6].nack>>
              = <<FALSE, FALSE, TRUE>>

(* -------------------------------- C4 ----------------------------------- *)

\* What a call that went through `plan` has issued and returned once the
\* backend has reported the faults of `log`.
IssuedFor(plan, log) ==
    IF log = <<>> THEN plan
    ELSE IF plan[log[1].n].c \in {"send", "receive"}
         THEN Append(SubSeq(plan, 1, log[1].n), EndCall)
         ELSE SubSeq(plan, 1, log[1].n)
ResultFor(log) == IF log = <<>> THEN "Ok" ELSE log[1].e

\* C4: write_read(a, w, r) makes the primitive calls of exec(a, [Write(w),
\* Read(r)]), same calls, arguments and order, with exactly one continue_with,
\* after the send of w and before every receive into r; and the calls issued
\* and the result returned are, for write_read as for exec, one and the same
\* function of that sequence and of what the backend answered.
C4_WriteReadIsExec ==
    /\ \A t \in Tasks :
          ( /\ tx[t].entry \in {"exec", "write_read"}
            /\ tx[t].status = "returned"
            /\ tx[t].ops # <<>> ) =>
              /\ tx[t].calls = IssuedFor(tx[t].plan, tx[t].faults)
              /\ tx[t].result = ResultFor(tx[t].faults)
    /\ \A t \in Tasks :
        (tx[t].entry = "write_read" /\ Started(t)) =>
            LET w == tx[t].ops[1].data
                r == tx[t].ops[2].data
                plan == tx[t].plan
                calls == tx[t].calls
                asExec == ExecPlan(tx[t].mode, tx[t].addr, <<Write(w), Read(r)>>)
            IN /\ plan = asExec
               /\ tx[t].err = "none" => calls = SubSeq(asExec, 1, Len(calls))
               /\ tx[t].result = "Ok" => calls = asExec
               /\ Count(calls, "continue_with") <= 1
               /\ \A p \in 1 .. Len(calls) :
                     calls[p].c = "continue_with" =>
                         /\ p = 3
                         /\ calls[2] = SendCall(w)
                         /\ \A q \in 1 .. Len(calls) :
                               calls[q].c = "receive" => q > p
               /\ tx[t].result = "Ok" => Count(calls, "continue_with") = 1

C4_Witness ==
    \E t \in Tasks :
        /\ tx[t].entry = "write_read"
        /\ tx[t].status = "returned"
        /\ tx[t].result = "Ok"
        /\ Len(tx[t].ops[1].data) = 1
        /\ Len(tx[t].ops[2].data) = 3
        /\ Count(tx[t].calls, "receive") = 3

(* -------------------------------- C5 ----------------------------------- *)

\* C5: once primitive call N has failed, no begin, continue_with, send or
\* receive is issued any more for the operations that remain (at most the
\* closing end follows), and the caller gets the error of call N, whatever a
\* later end reports.
C5_AbortOnFirstFault ==
    \A t \in Tasks :
        (Started(t) /\ tx[t].faults # <<>>) =>
            LET N == tx[t].faults[1].n
                calls == tx[t].calls
            IN /\ \A p \in (N + 1) .. Len(calls) : calls[p].c = "end"
               /\ Len(calls) <= N + 1
               /\ tx[t].status = "returned" => tx[t].result = tx[t].faults[1].e
               /\ tx[t].status = "returned" => tx[t].result # "Ok"

C5_Witness ==
    \E t \in Tasks :
        /\ tx[t].status = "returned"
        /\ Len(tx[t].faults) = 2
        /\ tx[t].faults[1].e # tx[t].faults[2].e
        /\ tx[t].result = tx[t].faults[1].e
        /\ tx[t].faults[1].n + 2 < Len(tx[t].plan)

(* -------------------------------- C6 ----------------------------------- *)

\* C6: exec with an empty operation list returns an error whose kind() is
\* Other and makes no primitive call at all. The list is handed to the
\* backend unchecked, which may as well answer Ok.
C6_EmptyTransaction ==
    \A t \in Tasks :
        (tx[t].entry = "exec" /\ tx[t].ops = <<>>) =>
            /\ tx[t].status = "returned"
            /\ kind(tx[t].result) = "Other"
            /\ tx[t].calls = <<>>
            /\ ~tx[t].pend

(* -------------------------------- C7 ----------------------------------- *)

\* C7: a transfer(read, write) without fault runs for max(len(read),
\* len(write)) word-times; the words of write go out in order, the first
\* len(read) incoming words are stored in order, the incoming words after
\* them are discarded and leave read as it is; either length may be zero.
C7_TransferLength ==
    /\ spi.pc \in {"transfer", "done"} =>
          /\ Len(spi.read) = spi.rlen
          /\ Len(spi.miso) = spi.t
          /\ Len(spi.mosi) = spi.t
          /\ \A i \in 1 .. spi.rlen :
                spi.read[i] = IF i <= spi.t THEN spi.miso[i] ELSE 0
          /\ \A i \in 1 .. spi.t :
                i <= Len(spi.write) => spi.mosi[i] = spi.write[i]
          /\ spi.discarded = IF spi.t > spi.rlen THEN spi.t - spi.rlen ELSE 0
    /\ (spi.pc = "done" /\ spi.result = "Ok") =>
          /\ spi.t = IF spi.rlen >= Len(spi.write) THEN spi.rlen
                     ELSE Len(spi.write)
          /\ SubSeq(spi.mosi, 1, Len(spi.write)) = spi.write
          /\ spi.read = SubSeq(spi.miso, 1, spi.rlen)

\* read length 2, write length 5: 5 word-times, 2 stored, 3 discarded, 5 sent.
C7_Witness ==
    /\ spi.pc = "done"
    /\ spi.result = "Ok"
    /\ spi.rlen = 2
    /\ Len(spi.write) = 5
    /\ spi.t = 5
    /\ spi.discarded = 3
    /\ spi.mosi = <<1, 2, 3, 4, 5>>
    /\ spi.read = SubSeq(spi.miso, 1, 2)

(* -------------------------------- C8 ----------------------------------- *)

IssuesCall(t) == Len(tx'[t].calls) > Len(tx[t].calls)

\* C8 (as amended): a primitive call is issued only by the one transaction
\* that holds the handle, never while another transaction is in progress, so
\* the calls of two transactions do not interleave; a transaction that had to
\* wait issues its first call only after the one before it has returned (Ok
\* or an error) or was cancelled by dropping its future.
C8_NoInterleaving ==
    [][\A t \in Tasks :
          IssuesCall(t) =>
              /\ handle = t
              /\ \A u \in Tasks \ {t} : tx[u].status # "running"]_vars

\* A suspending transaction is parked inside a primitive call while the other
\* caller waits for the handle.
C8_Witness ==
    /\ tx[2].status = "running"
    /\ tx[2].pend
    /\ Len(tx[2].calls) >= 2
    /\ tx[1].status = "waiting"

\* C8 as stated: a transaction that had to wait issues its first primitive
\* call only after the transaction before it has completed or failed.
C8_Original ==
    \A t \in Tasks :
        (tx[t].waited /\ tx[t].calls # <<>>) =>
            \A u \in Tasks \ {t} : tx[u].status # "cancelled"

(* -------------------------------- C9 ----------------------------------- *)

\* C9: the address of every transaction has the width of its mode: below
\* 128 in SevenBit mode, below 1024 in TenBit mode. The carrier types are u8
\* and u16 and nothing checks the value, so 128 and 1500 are executed.
C9_AddressWidth ==
    \A t \in Tasks :
        Started(t) =>
            /\ tx[t].mode = "SevenBit" => tx[t].addr < 128
            /\ tx[t].mode = "TenBit" => tx[t].addr < 1024

(* -------------------------------- C10 ---------------------------------- *)

\* C10: in 7-bit mode the address goes out as exactly one byte, equal to
\* (address * 2 + d) mod 256 with d = 0 for write and d = 1 for read.
C10_SevenBitAddressByte ==
    (wire.pc = "sent" /\ wire.mode = "SevenBit") =>
        wire.bytes
            = << (wire.addr * 2 + (IF wire.dir = "R" THEN 1 ELSE 0)) % 256 >>

\* 0x15 with direction write: the single byte 0x2A.
C10_Witness ==
    /\ wire.pc = "sent"
    /\ wire.mode = "SevenBit"
    /\ wire.addr = 21
    /\ wire.dir = "W"
    /\ wire.bytes = <<42>>


(* ---------------------------------------------------------------------- *)
\* C11: in an SPI transaction chip-select is asserted once, before the first
\* operation; it stays asserted across every operation, whatever their number
\* and kinds; it is deasserted only after the last operation that ran. Between
\* two operations of one transaction the select line is neither deasserted
\* nor asserted again, and every word-time of the transaction happens with
\* the line asserted.
C11_SelectLine(log) ==
    /\ log[1] = CsAssert
    /\ \A j \in 2 .. Len(log) :
          /\ log[j] # CsAssert
          /\ log[j] = CsDeassert =>
                /\ j = Len(log)
                /\ log[j - 1].e = "op" \/ Len(log) = 2
          /\ log[j].e = "op" => log[j].k = j - 1

C11_ChipSelectHeld ==
    /\ cs.log # <<>> => C11_SelectLine(cs.log)
    /\ Len(cs.log) = 2 /\ cs.log[2] = CsDeassert => cs.ops = <<>>
    /\ cs.asserted = (cs.log # <<>> /\ cs.log[Len(cs.log)] # CsDeassert)
    /\ cs.pc \in {"next", "op", "release"} => cs.asserted
    /\ spi.pc # "idle" => cs.asserted /\ cs.log[Len(cs.log)] = OpEvent(cs.i)
    /\ cs.pc = "returned" /\ cs.result = "Ok" =>
          cs.log = <<CsAssert>>
                      \o [j \in 1 .. Len(cs.ops) |-> OpEvent(j)]
                      \o <<CsDeassert>>

C11_Witness ==
    /\ cs.pc = "returned"
    /\ cs.result = "Ok"
    /\ cs.entry = "transaction"
    /\ Len(cs.ops) = 3
    /\ cs.ops[1].kind = "Write"
    /\ cs.ops[2].kind = "Read"
    /\ cs.ops[3].kind = "Transfer"
    /\ Len(cs.log) = 5

(* -------------------------------- C12 ---------------------------------- *)

\* C12: when a send or receive fails, begin has succeeded before it, and end
\* is still called: it is the one call that follows the failed one, and the
\* transaction does not return without it. When begin or continue_with fails,
\* the failed call is the last call of the transaction: nothing follows it,
\* end included, and the transaction has returned.
C12_EndAfterFault ==
    \A t \in Tasks :
        (Started(t) /\ tx[t].faults # <<>>) =>
            LET N == tx[t].faults[1].n
                calls == tx[t].calls
            IN /\ IsData(calls[N]) =>
                     /\ N > 1
                     /\ calls[1].c = "begin"
                     /\ Count(SubSeq(calls, 1, N), "end") = 0
                     /\ tx[t].status = "running" /\ ~tx[t].pend =>
                           NextCall(t) = EndCall
                     /\ Len(calls) > N => calls[N + 1] = EndCall
                     /\ tx[t].status = "returned" => Len(calls) = N + 1
               /\ IsFraming(calls[N]) =>
                     /\ Len(calls) = N
                     /\ Count(calls, "end") = 0
                     /\ tx[t].status = "returned"
                     /\ ~tx[t].pend

C12_Witness ==
    \E t \in Tasks :
        /\ tx[t].status = "returned"
        /\ Len(tx[t].faults) = 1
        /\ tx[t].calls[tx[t].faults[1].n].c = "receive"
        /\ tx[t].faults[1].n + 1 < Len(tx[t].plan)
        /\ tx[t].calls[Len(tx[t].calls)] = EndCall
        /\ tx[t].result = tx[t].faults[1].e

\* A failed continue_with after a successful begin: the transaction is over
\* with no end call.
C12_FramingFault ==
    \E t \in Tasks :
        /\ tx[t].status = "returned"
        /\ tx[t].faults # <<>>
        /\ tx[t].calls[tx[t].faults[1].n].c = "continue_with"
        /\ Count(tx[t].calls, "end") = 0

====
